---- MODULE Spec2Model ----
(***************************************************************************)
(* Model of the database session / transaction layer of                   *)
(* src/src/utils/db_utils.py: the scoped_session registry, session_scope, *)
(* the cancellation timer, the row-locking helpers, list_models and       *)
(* get_or_create, run by concurrent threads against a backend that keeps  *)
(* committed rows, per-session uncommitted rows and row locks.            *)
(***************************************************************************)
EXTENDS Integers, Sequences, FiniteSets, TLC

VARIABLES prepared, autoflush, registry, stack, ret, steps,
          committed, rowval, nextRow, pend, ins, lock, goc,
          teams, tpend, req, requests, gone,
          Engine, ReadOnlyEngine, Session, bound, bind, made, nextEngine,
          disposed, retired, lpc, late

\* the Team table and the registration requests of src/app.py
appVars == <<teams, tpend, req, requests>>

vars == <<prepared, autoflush, registry, stack, ret, steps,
          committed, rowval, nextRow, pend, ins, lock, goc, appVars, gone,
          Engine, ReadOnlyEngine, Session, bound, bind, made, nextEngine,
          disposed, retired, lpc, late>>

\* the module globals prepare_module and shutdown_module assign besides
\* _PREPARED, the session factory bound to the models, and where each
\* thread stands inside the two functions
lifeVars == <<Engine, ReadOnlyEngine, Session, bound, bind, made, nextEngine,
              disposed, retired, lpc>>

\* state that only a few operations touch
\* late: the sessions whose cancellation timer outlived its scope
sideVars == <<gone, lifeVars, late>>

----------------------------------------------------------------------------
(* Bounds of the model. *)

\* frames a thread may have open at once (a scope, and helpers inside its body)
MaxDepth == 2
\* calls and body statements the threads issue in all
MaxSteps == 3
\* rows the threads may insert on top of the initial table
MaxNewRows == 2
\* engines prepare_engine may create in all
MaxEngines == 4

Threads == {"t1", "t2"}

\* The column value a predicate filters on; the initial table holds two rows
\* matching "a", one matching "b" and none matching "c".
Vals == {"a", "b", "c"}
InitTable == <<"a", "a", "b">>
RowIds == 1..(Len(InitTable) + MaxNewRows)
NoVal == "-"

SessionIds == 1..(Cardinality(Threads) * MaxDepth)
NoSession == 0

\* Engines are identified by their order of creation; a session factory by
\* the engine it binds.  None is 0.
EngineIds == 1..MaxEngines
NoEngine == 0
\* a thread outside prepare_module and shutdown_module
Idle == [at |-> "idle", scope |-> FALSE]
\* no engine pair and no session factory created yet
NoneMade == [Engine |-> 0, ReadOnlyEngine |-> 0, Session |-> 0]

CounterCap == MaxDepth + 2

\* Team.name is the primary key; a row's contents (contact, register_time)
\* are identified by the request that supplied them
TeamNames == {"Alpha", "Beta"}
RequestIds == 1..MaxSteps
NoTeam == 0
\* list_models: the default limit, and the arguments of no call
DefaultLimit == 100
NoCall == [limit |-> 0, offset |-> 0, page |-> 0, disable_limiting |-> FALSE]
\* the limits, offsets and pages list_models is called with
Limits == {1, 2}
Offsets == {0, 1, 2}
Pages == {0, 1, 2, 3}
NoRequest == 0

\* what session.merge() left to write in a session: nothing, or the Team
\* row of request id, as an INSERT or as an UPDATE of the row it loaded
NoMerge == [name |-> "", id |-> NoRequest, op |-> "none"]

Min(a, b) == IF a < b THEN a ELSE b

----------------------------------------------------------------------------
(* Exceptions.  type is the Python class, why the backend cause carried in *)
(* the arguments, src tells whether the helper's own statement or the      *)
(* caller's body raised it.  A translated exception keeps why and src of   *)
(* the exception it replaces (Python's implicit __context__).              *)

Exc(type, why, src) == [type |-> type, why |-> why, src |-> src]
NoExc == Exc("none", "", "")

NotFound(e) == Exc("NotFound", e.why, e.src)
Locked(e) == Exc("Locked", e.why, e.src)
Timeout(e) == Exc("Timeout", e.why, e.src)

\* `except Exception` does not catch KeyboardInterrupt / SystemExit.
IsException(e) == e.type \notin {"none", "KeyboardInterrupt"}

IsOperationalError(e) == e.type = "OperationalError"

\* e.args == TIMEOUT_EXCEPTION_ARGS: the backend's "canceling statement due
\* to user request".
TIMEOUT_EXCEPTION_ARGS == "user_cancel"

\* what the caller's code inside a with-block may raise
BodyExceptions ==
    { Exc("ValueError", "app", "body"),
      Exc("KeyboardInterrupt", "interrupt", "body"),
      Exc("NoResultFound", "no_rows", "body"),
      Exc("OperationalError", "deadlock", "body"),
      Exc("OperationalError", TIMEOUT_EXCEPTION_ARGS, "body") }

----------------------------------------------------------------------------
(* Frames: one per open session_scope or lock helper of a thread.          *)

ScopeKinds == {"scope"}
LockKinds == {"lock_one", "lock_model", "lock_models", "lock_by_query"}

Frame(kind, owner, pc, sid, tmo, sto, nowait, pred, first) ==
    [ kind |-> kind, owner |-> owner, pc |-> pc, sid |-> sid,
      tmo |-> tmo, sto |-> sto, timer |-> "none",
      nowait |-> nowait, pred |-> pred, first |-> first,
      matched |-> {}, held |-> {}, got |-> {}, yielded |-> FALSE,
      locksBefore |-> {},
      nCommit |-> 0, nRollback |-> 0, nClose |-> 0,
      wrote |-> {}, ulocks |-> {}, nestedIn |-> FALSE, before |-> {}, seen |-> {}, call |-> NoCall, listed |-> <<>>, via |-> "", raw |-> NoExc, ein |-> NoExc, e |-> NoExc ]

NoFrame == Frame("none", "none", "none", NoSession, FALSE, FALSE, FALSE, NoVal, FALSE)

\* the record get_or_create leaves in goc: no call yet
NoGoc == [pred |-> NoVal, row |-> 0, created |-> FALSE, sid |-> NoSession,
          again |-> FALSE, prow |-> 0, pcreated |-> FALSE, shared |-> FALSE, n |-> 0]

Top(t) == stack[t][Len(stack[t])]
InUserCode(t) == IF stack[t] = <<>> THEN TRUE ELSE Top(t).pc = "body"
HasBudget == steps < MaxSteps

\* ret is the return that just happened: the thread, what the frame that
\* returned was and how it returned; the next step of any thread forgets it
NoRet == [t |-> "none", f |-> NoFrame, out |-> NoExc]

----------------------------------------------------------------------------
(* The backend and the session objects.  committed holds the rows of the   *)
(* table, ins[s] the rows session s has flushed (INSERTed) in its open     *)
(* transaction, pend[s] the instances added to s and not flushed yet,      *)
(* lock[r] the sessions whose transactions hold the row lock of r, gone[s]  *)
(* the rows session s has marked deleted, to be DELETEd at its next flush. *)

Cleared(f, s) == [f EXCEPT ![s] = {}]
Released(s) == [r \in RowIds |-> lock[r] \ {s}]
LocksOf(s) == {r \in RowIds : s \in lock[r]}

\* Query autoflush: a query through session s first flushes its pending
\* instances, unless the session factory was built with autoflush=False.
FlushedIns(s) == IF autoflush THEN ins[s] \cup pend[s] ELSE ins[s]
FlushedPend(s) == IF autoflush THEN {} ELSE pend[s]

\* the rows a query of session s filtered on value p returns
Match(s, p) ==
    {r \in (committed \cup FlushedIns(s)) \ (IF autoflush THEN gone[s] ELSE {}) : rowval[r] = p}

HeldByOther(s, R) == {r \in R : lock[r] \ {s} # {}}

----------------------------------------------------------------------------
(* Bookkeeping of what happened to a scope's session while the scope was   *)
(* open: every scope frame of the thread that holds session s counts the   *)
(* commits completed, the rollbacks and the closes executed on s.          *)

Concerns(f, s) == f.kind \in ScopeKinds /\ f.sid = s

CountCommit(st, s) ==
    [i \in 1..Len(st) |-> IF Concerns(st[i], s)
        THEN [st[i] EXCEPT !.nCommit = Min(@ + 1, CounterCap)] ELSE st[i]]

CountRollback(st, s) ==
    [i \in 1..Len(st) |-> IF Concerns(st[i], s)
        THEN [st[i] EXCEPT !.nRollback = Min(@ + 1, CounterCap)] ELSE st[i]]

CountClose(st, s) ==
    [i \in 1..Len(st) |-> IF Concerns(st[i], s)
        THEN [st[i] EXCEPT !.nClose = Min(@ + 1, CounterCap)] ELSE st[i]]

\* a row written through session s belongs to the innermost open scope on s
NoteWrite(st, s, r) ==
    LET own == {i \in 1..Len(st) : Concerns(st[i], s)}
        top == CHOOSE i \in own : \A j \in own : j <= i
    IN IF own = {} THEN st ELSE [st EXCEPT ![top].wrote = @ \cup {r}]

\* the rows T locked by lock_one(scoped=False) are noted in the scope that
\* encloses the call, the innermost open scope of the thread
NoteUnscoped(st, T) ==
    LET scopes == {i \in 1..Len(st) : st[i].kind \in ScopeKinds}
        top == CHOOSE i \in scopes : \A j \in scopes : j <= i
    IN IF scopes = {} THEN st ELSE [st EXCEPT ![top].ulocks = @ \cup T]

\* a nested scope is entered inside the innermost open scope of the thread,
\* which has written the rows `wrote` so far
NoteNested(st) ==
    LET scopes == {i \in 1..Len(st) : st[i].kind \in ScopeKinds}
        top == CHOOSE i \in scopes : \A j \in scopes : j <= i
    IN IF scopes = {} THEN st
       ELSE [st EXCEPT ![top].nestedIn = TRUE, ![top].before = @ \cup st[top].wrote]

SetTop(st, f) == [st EXCEPT ![Len(st)] = f]

\* The frame on top of st returns to its caller with exception out (NoExc:
\* normally).  An exception surfaces in the enclosing frame, whose body does
\* not catch it.
Popped(st, out) ==
    LET rest == SubSeq(st, 1, Len(st) - 1) IN
    IF out = NoExc \/ rest = <<>> THEN rest
    ELSE SetTop(rest, [rest[Len(rest)] EXCEPT !.e = out, !.pc = "except", !.via = "body"])

Returned(st, out) == [t |-> "none", f |-> st[Len(st)], out |-> out]

----------------------------------------------------------------------------
(* Initial state: the module as imported, nothing prepared, no session.    *)

Init ==
    /\ prepared = FALSE
    /\ autoflush \in BOOLEAN
    /\ registry = [t \in Threads |-> NoSession]
    /\ stack = [t \in Threads |-> <<>>]
    /\ ret = NoRet
    /\ steps = 0
    /\ committed = 1..Len(InitTable)
    /\ rowval = [r \in RowIds |-> IF r <= Len(InitTable) THEN InitTable[r] ELSE NoVal]
    /\ nextRow = Len(InitTable) + 1
    /\ pend = [s \in SessionIds |-> {}]
    /\ ins = [s \in SessionIds |-> {}]
    /\ lock = [r \in RowIds |-> {}]
    /\ goc = [t \in Threads |-> NoGoc]
    /\ teams = [n \in TeamNames |-> NoTeam]
    /\ tpend = [s \in SessionIds |-> NoMerge]
    /\ req = [t \in Threads |-> NoRequest]
    /\ requests = <<>>
    /\ gone = [s \in SessionIds |-> {}]
    /\ Engine = NoEngine
    /\ ReadOnlyEngine = NoEngine
    /\ Session = NoEngine
    /\ bound = NoEngine
    /\ bind = [s \in SessionIds |-> NoEngine]
    /\ made = NoneMade
    /\ nextEngine = 1
    /\ disposed = {}
    /\ retired = {}
    /\ lpc = [t \in Threads |-> Idle]
    /\ late = {}

----------------------------------------------------------------------------
(* session_scope, entry: prepare_module(); Session.remove() when nested;   *)
(* session = BaseModel.session() returns the session registered for the    *)
(* thread, or registers a new one.  Session.remove() closes the registered *)
(* session, whoever still uses it.                                         *)

EnterScope(t, owner, nested, tmo, sto, nowait, pred) ==
    LET \* prepare_module() runs here in one piece, unless the thread has
        \* already gone through it statement by statement
        atomic == lpc[t].at = "idle"
        init == atomic /\ ~prepared
        factory == IF init THEN nextEngine ELSE bound
        old == IF init THEN NoSession ELSE registry[t]
        removing == nested /\ old # NoSession
        inFrames == UNION {{stack[u][i].sid : i \in 1..Len(stack[u])} : u \in Threads}
        taken == inFrames \cup {registry[u] : u \in Threads \ {t}} \cup (late \ {registry[t]})
        fresh == CHOOSE s \in SessionIds \ taken : \A s2 \in SessionIds \ taken : s <= s2
        sid == IF nested \/ old = NoSession THEN fresh ELSE old
        st0 == IF nested THEN NoteNested(stack[t]) ELSE stack[t]
        st1 == IF removing THEN CountClose(st0, old) ELSE st0
    IN
    /\ InUserCode(t)
    /\ atomic => HasBudget
    /\ Len(stack[t]) < MaxDepth
    /\ SessionIds \ taken # {}
    /\ lpc[t].at \in {"idle", "entered"}
    /\ init => nextEngine + 1 <= MaxEngines
    /\ factory # NoEngine
    /\ nested => (init \/ Session # NoEngine)
    /\ prepared' = (atomic \/ prepared)
    /\ Engine' = IF init THEN nextEngine ELSE Engine
    /\ ReadOnlyEngine' = IF init THEN nextEngine + 1 ELSE ReadOnlyEngine
    /\ Session' = IF init THEN nextEngine ELSE Session
    /\ bound' = factory
    /\ made' = IF init
               THEN [Engine |-> made.Engine + 1,
                     ReadOnlyEngine |-> made.ReadOnlyEngine + 1,
                     Session |-> made.Session + 1]
               ELSE made
    /\ nextEngine' = IF init THEN nextEngine + 2 ELSE nextEngine
    /\ bind' = IF nested \/ old = NoSession THEN [bind EXCEPT ![sid] = factory] ELSE bind
    /\ lpc' = [lpc EXCEPT ![t] = Idle]
    /\ registry' = [u \in Threads |->
                       IF u = t THEN sid ELSE IF init THEN NoSession ELSE registry[u]]
    /\ pend' = IF removing THEN Cleared(pend, old) ELSE pend
    /\ ins' = IF removing THEN Cleared(ins, old) ELSE ins
    /\ lock' = IF removing THEN Released(old) ELSE lock
    /\ stack' = [stack EXCEPT ![t] =
                    Append(st1, Frame("scope", owner, "setup", sid, tmo, sto, nowait, pred, FALSE))]
    /\ steps' = IF atomic THEN steps + 1 ELSE steps
    /\ ret' = NoRet
    /\ tpend' = IF removing THEN [tpend EXCEPT ![old] = NoMerge] ELSE tpend
    /\ gone' = IF removing THEN Cleared(gone, old) ELSE gone
    /\ UNCHANGED <<autoflush, committed, rowval, nextRow, goc, teams, disposed, retired, late>>

----------------------------------------------------------------------------
(* prepare_module and shutdown_module, statement by statement: the module  *)
(* globals are shared by the threads, and nothing orders two threads that  *)
(* run these functions.  lpc[t].scope tells that session_scope made the    *)
(* call and goes on to BaseModel.session().                                *)

\* everything of the model that neither function touches
scopeVars == <<autoflush, stack, ret, committed, rowval, nextRow,
               pend, ins, lock, goc, appVars, gone, bind, late>>

At(t, at) == [lpc EXCEPT ![t] = [@ EXCEPT !.at = at]]

\* prepare_module or shutdown_module returns (or raises) to its caller
Leave(t) ==
    [lpc EXCEPT ![t] = IF @.scope /\ @.at \in {"check", "flag"}
                       THEN [@ EXCEPT !.at = "entered"]
                       ELSE Idle]

\* a direct call of prepare_module()
prepare_module(t) ==
    /\ InUserCode(t)
    /\ HasBudget
    /\ lpc[t] = Idle
    /\ steps' = steps + 1
    /\ lpc' = [lpc EXCEPT ![t] = [at |-> "check", scope |-> FALSE]]
    /\ UNCHANGED <<prepared, registry, Engine, ReadOnlyEngine, Session, bound, made,
                   nextEngine, disposed, retired>>
    /\ UNCHANGED scopeVars

\* session_scope: `prepare_module()`
ScopePrepare(t) ==
    /\ InUserCode(t)
    /\ HasBudget
    /\ Len(stack[t]) < MaxDepth
    /\ lpc[t] = Idle
    /\ steps' = steps + 1
    /\ lpc' = [lpc EXCEPT ![t] = [at |-> "check", scope |-> TRUE]]
    /\ UNCHANGED <<prepared, registry, Engine, ReadOnlyEngine, Session, bound, made,
                   nextEngine, disposed, retired>>
    /\ UNCHANGED scopeVars

\* `if not _PREPARED:`
PrepareCheck(t) ==
    /\ lpc[t].at = "check"
    /\ lpc' = IF prepared THEN Leave(t) ELSE At(t, "engine")
    /\ UNCHANGED <<prepared, registry, Engine, ReadOnlyEngine, Session, bound, made,
                   nextEngine, disposed, retired>>
    /\ UNCHANGED <<steps, scopeVars>>

\* `Engine = prepare_engine(echo=echo)`
PrepareEngine(t) ==
    /\ lpc[t].at = "engine"
    /\ nextEngine <= MaxEngines
    /\ Engine' = nextEngine
    /\ nextEngine' = nextEngine + 1
    /\ made' = [made EXCEPT !.Engine = @ + 1]
    /\ lpc' = At(t, "read_only")
    /\ UNCHANGED <<prepared, registry, ReadOnlyEngine, Session, bound, disposed, retired>>
    /\ UNCHANGED <<steps, scopeVars>>

\* `ReadOnlyEngine = prepare_engine(read_only=True, echo=echo)`
PrepareReadOnlyEngine(t) ==
    /\ lpc[t].at = "read_only"
    /\ nextEngine <= MaxEngines
    /\ ReadOnlyEngine' = nextEngine
    /\ nextEngine' = nextEngine + 1
    /\ made' = [made EXCEPT !.ReadOnlyEngine = @ + 1]
    /\ lpc' = At(t, "session")
    /\ UNCHANGED <<prepared, registry, Engine, Session, bound, disposed, retired>>
    /\ UNCHANGED <<steps, scopeVars>>

\* `Session = scoped_session(CustomSessionFactory(bind=Engine, ...), ...)`,
\* with whatever the global Engine is by now
PrepareSession(t) ==
    /\ lpc[t].at = "session"
    /\ Session' = Engine
    /\ made' = [made EXCEPT !.Session = @ + 1]
    /\ lpc' = At(t, "bind")
    /\ UNCHANGED <<prepared, registry, Engine, ReadOnlyEngine, bound, nextEngine,
                   disposed, retired>>
    /\ UNCHANGED <<steps, scopeVars>>

\* `BaseModel.set_session(Session)`: the models get the factory the global
\* names by now, and with a new scoped_session an empty registry
PrepareBind(t) ==
    /\ lpc[t].at = "bind"
    /\ bound' = Session
    /\ registry' = [u \in Threads |-> NoSession]
    /\ lpc' = At(t, "flag")
    /\ UNCHANGED <<prepared, Engine, ReadOnlyEngine, Session, made, nextEngine,
                   disposed, retired>>
    /\ UNCHANGED <<steps, scopeVars>>

\* `_PREPARED = True`
PrepareFlag(t) ==
    /\ lpc[t].at = "flag"
    /\ prepared' = TRUE
    /\ lpc' = Leave(t)
    /\ UNCHANGED <<registry, Engine, ReadOnlyEngine, Session, bound, made, nextEngine,
                   disposed, retired>>
    /\ UNCHANGED <<steps, scopeVars>>

\* session_scope: `session = BaseModel.session()` with no factory bound to
\* the models raises before the try statement is entered
ScopeNoSession(t) ==
    /\ lpc[t].at = "entered"
    /\ bound = NoEngine
    /\ lpc' = [lpc EXCEPT ![t] = Idle]
    /\ UNCHANGED <<prepared, registry, Engine, ReadOnlyEngine, Session, bound, made,
                   nextEngine, disposed, retired>>
    /\ UNCHANGED <<steps, scopeVars>>

\* a call of shutdown_module()
shutdown_module(t) ==
    /\ InUserCode(t)
    /\ HasBudget
    /\ lpc[t] = Idle
    /\ steps' = steps + 1
    /\ lpc' = [lpc EXCEPT ![t] = [at |-> "shut_check", scope |-> FALSE]]
    /\ UNCHANGED <<prepared, registry, Engine, ReadOnlyEngine, Session, bound, made,
                   nextEngine, disposed, retired>>
    /\ UNCHANGED scopeVars

\* `if _PREPARED:`
ShutdownCheck(t) ==
    /\ lpc[t].at = "shut_check"
    /\ lpc' = IF prepared THEN At(t, "dispose") ELSE Leave(t)
    /\ UNCHANGED <<prepared, registry, Engine, ReadOnlyEngine, Session, bound, made,
                   nextEngine, disposed, retired>>
    /\ UNCHANGED <<steps, scopeVars>>

\* `Engine.dispose()`; on None it raises and the function is left
ShutdownDispose(t) ==
    /\ lpc[t].at = "dispose"
    /\ disposed' = IF Engine = NoEngine THEN disposed ELSE disposed \cup {Engine}
    /\ lpc' = IF Engine = NoEngine THEN Leave(t) ELSE At(t, "dispose_read_only")
    /\ UNCHANGED <<prepared, registry, Engine, ReadOnlyEngine, Session, bound, made,
                   nextEngine, retired>>
    /\ UNCHANGED <<steps, scopeVars>>

\* `ReadOnlyEngine.dispose()`
ShutdownDisposeReadOnly(t) ==
    /\ lpc[t].at = "dispose_read_only"
    /\ disposed' = IF ReadOnlyEngine = NoEngine THEN disposed
                   ELSE disposed \cup {ReadOnlyEngine}
    /\ lpc' = IF ReadOnlyEngine = NoEngine THEN Leave(t) ELSE At(t, "unset")
    /\ UNCHANGED <<prepared, registry, Engine, ReadOnlyEngine, Session, bound, made,
                   nextEngine, retired>>
    /\ UNCHANGED <<steps, scopeVars>>

\* `Engine = None; ReadOnlyEngine = None; Session = None`
ShutdownUnset(t) ==
    /\ lpc[t].at = "unset"
    /\ Engine' = NoEngine
    /\ ReadOnlyEngine' = NoEngine
    /\ Session' = NoEngine
    /\ lpc' = At(t, "unflag")
    /\ UNCHANGED <<prepared, registry, bound, made, nextEngine, disposed, retired>>
    /\ UNCHANGED <<steps, scopeVars>>

\* `_PREPARED = False`, and the function returns: the engines disposed so
\* far are those of before a shutdown, and a new period of initialisation
\* begins
ShutdownFlag(t) ==
    /\ lpc[t].at = "unflag"
    /\ prepared' = FALSE
    /\ retired' = disposed
    /\ made' = NoneMade
    /\ lpc' = Leave(t)
    /\ UNCHANGED <<registry, Engine, ReadOnlyEngine, Session, bound, nextEngine, disposed>>
    /\ UNCHANGED <<steps, scopeVars>>

\* the keyword arguments session_scope is called with: none, nested=True,
\* timeout=..., statement_timeout=...
ScopeOptions ==
    { [nested |-> FALSE, timeout |-> FALSE, statement_timeout |-> FALSE],
      [nested |-> TRUE, timeout |-> FALSE, statement_timeout |-> FALSE],
      [nested |-> FALSE, timeout |-> TRUE, statement_timeout |-> FALSE],
      [nested |-> FALSE, timeout |-> FALSE, statement_timeout |-> TRUE] }

session_scope(t, nested, tmo, sto) ==
    /\ EnterScope(t, "user", nested, tmo, sto, FALSE, NoVal)
    /\ UNCHANGED <<req, requests>>

\* where the generator goes after the entry statements, by who opened the scope
AfterSetup(owner) ==
    CASE owner = "list_models" -> "query"
      [] owner = "register" -> "check"
      [] owner = "delete_model" -> "delete"
      [] owner = "lock_one" -> "stmt"
      [] OTHER -> "body"

(* session_scope, the statements of the try block up to the yield: the SET *)
(* statements, timer.start() when timeout is given, SET application_name.  *)
(* A statement may fail; timer.start() comes before the last statement, so *)
(* a failure may leave the timer armed or not.                             *)
ScopeSetup(t, ok, armed) ==
    /\ stack[t] # <<>>
    /\ Top(t).kind \in ScopeKinds
    /\ Top(t).pc = "setup"
    /\ armed => Top(t).tmo
    /\ ok => (armed = Top(t).tmo)
    /\ stack' = [stack EXCEPT ![t] = SetTop(@,
            IF ok
            THEN [Top(t) EXCEPT !.timer = IF armed THEN "armed" ELSE "none",
                                !.pc = AfterSetup(Top(t).owner)]
            ELSE [Top(t) EXCEPT !.timer = IF armed THEN "armed" ELSE "none",
                                !.e = Exc("OperationalError", "conn_lost", "setup"),
                                !.via = "setup",
                                !.pc = "except"])]
    /\ ret' = NoRet
    /\ UNCHANGED <<prepared, autoflush, registry, steps,
                   committed, rowval, nextRow, pend, ins, lock, goc>>
    /\ UNCHANGED appVars
    /\ UNCHANGED sideVars

(* session.commit() after the body returned: flushes and commits the rows  *)
(* of the session and ends its transaction; or raises, and nothing is      *)
(* committed.                                                              *)
ScopeCommit(t, ok) ==
    LET s == Top(t).sid
        st1 == CountCommit(stack[t], s)
        m == tpend[s]
        \* the flush INSERTs a Team whose primary key is taken meanwhile
        duplicate == m.op = "insert" /\ teams[m.name] # NoTeam
    IN
    /\ stack[t] # <<>>
    /\ Top(t).kind \in ScopeKinds
    /\ Top(t).pc = "commit"
    \* the DELETE of a row waits for the row locks of other transactions
    /\ HeldByOther(s, gone[s]) = {}
    /\ IF ok /\ ~duplicate
       THEN /\ committed' = (committed \cup ins[s] \cup pend[s]) \ gone[s]
            /\ pend' = Cleared(pend, s)
            /\ ins' = Cleared(ins, s)
            /\ gone' = Cleared(gone, s)
            /\ lock' = Released(s)
            /\ teams' = IF m.op = "none" THEN teams ELSE [teams EXCEPT ![m.name] = m.id]
            /\ tpend' = [tpend EXCEPT ![s] = NoMerge]
            /\ stack' = [stack EXCEPT ![t] = SetTop(st1, [st1[Len(st1)] EXCEPT !.pc = "finally"])]
       ELSE /\ stack' = [stack EXCEPT ![t] = SetTop(@,
                    [Top(t) EXCEPT !.e = IF ok
                                         THEN Exc("IntegrityError", "duplicate", "commit")
                                         ELSE Exc("OperationalError", "conn_lost", "commit"),
                                          !.via = "commit",
                                          !.pc = "except"])]
            /\ UNCHANGED <<committed, pend, ins, lock, teams, tpend, gone>>
    /\ ret' = NoRet
    /\ UNCHANGED <<prepared, autoflush, registry, steps, rowval, nextRow, goc, req, requests>>
    /\ UNCHANGED <<lifeVars, late>>

\* the handler raising Timeout only in a scope that armed a timer
HandlerRaisesIfArmedOnly(e, timerArmed) ==
    IF IsOperationalError(e) /\ e.why = TIMEOUT_EXCEPTION_ARGS /\ timerArmed
    THEN Timeout(e) ELSE e

\* `if isinstance(e, OperationalError) and e.args == TIMEOUT_EXCEPTION_ARGS:
\*      raise Timeout()` and otherwise `raise`; timerArmed is whether the scope
\* had armed a timer, which the handler does not look at.

HandlerRaises(e, timerArmed) ==
    IF IsOperationalError(e) /\ e.why = TIMEOUT_EXCEPTION_ARGS
    THEN Timeout(e) ELSE e

\* 'deadlock' in str(e)
MentionsDeadlock(e) == e.why = "deadlock" /\ e.type = "OperationalError"

(* The except clause and what follows an exception thrown into the         *)
(* generator: `except Exception` rolls back, dumps pg_stat_activity on a   *)
(* deadlock, raises Timeout or re-raises.  session.rollback() and          *)
(* log_pg_stat_activity() may raise themselves.  An exception that is not  *)
(* an Exception goes straight to the finally clause.                       *)
ScopeExcept(t, oc) ==
    LET f == Top(t)
        s == f.sid
        st1 == CountRollback(stack[t], s)
        out == CASE oc = "rollback_raises" -> Exc("OperationalError", "conn_lost", "rollback")
                 [] oc = "diag_raises" -> Exc("OperationalError", "conn_lost", "diag")
                 [] OTHER -> HandlerRaises(f.e, f.timer # "none")
    IN
    /\ stack[t] # <<>>
    /\ f.kind \in ScopeKinds
    /\ f.pc = "except"
    /\ oc = "diag_raises" => MentionsDeadlock(f.e)
    /\ IF IsException(f.e)
       THEN /\ stack' = [stack EXCEPT ![t] = SetTop(st1,
                    [st1[Len(st1)] EXCEPT !.ein = f.e, !.e = out, !.pc = "finally"])]
            /\ pend' = Cleared(pend, s)
            /\ ins' = Cleared(ins, s)
            /\ lock' = Released(s)
            /\ tpend' = [tpend EXCEPT ![s] = NoMerge]
            /\ gone' = Cleared(gone, s)
       ELSE /\ oc = "ok"
            /\ stack' = [stack EXCEPT ![t] = SetTop(@, [f EXCEPT !.ein = f.e, !.pc = "finally"])]
            /\ UNCHANGED <<pend, ins, lock, tpend, gone>>
    /\ ret' = NoRet
    /\ UNCHANGED <<prepared, autoflush, registry, steps, committed, rowval, nextRow, goc>>
    /\ UNCHANGED <<teams, req, requests>>
    /\ UNCHANGED <<lifeVars, late>>

(* The finally clause: timer.cancel(), session.close(); then the scope     *)
(* returns to its caller, normally or with the exception.  cancel() stops  *)
(* a timer that has not fired; one that is already running its function    *)
(* goes on after the scope.  When cancel() itself raises (cancelled is      *)
(* FALSE), the exception leaves the finally clause at once; what becomes   *)
(* of the timer then is not followed.                                      *)
ScopeFinally(t, cancelled) ==
    LET f == Top(t)
        s == f.sid
        raised == Exc("KeyboardInterrupt", "interrupt", "cancel")
        st1 == IF cancelled THEN CountClose(stack[t], s) ELSE stack[t]
        f1 == [st1[Len(st1)] EXCEPT
                   !.timer = IF cancelled /\ @ = "armed" THEN "cancelled" ELSE @,
                   !.e = IF cancelled THEN @ ELSE raised,
                   !.pc = "closed"]
        st2 == SetTop(st1, f1)
    IN
    /\ stack[t] # <<>>
    /\ f.kind \in ScopeKinds
    /\ f.pc = "finally"
    /\ ~cancelled => f.timer # "none"
    /\ late' = IF cancelled /\ f.timer = "firing" THEN late \cup {s} ELSE late
    /\ IF cancelled
       THEN /\ pend' = Cleared(pend, s)
            /\ ins' = Cleared(ins, s)
            /\ lock' = Released(s)
            /\ tpend' = [tpend EXCEPT ![s] = NoMerge]
            /\ gone' = Cleared(gone, s)
       ELSE UNCHANGED <<pend, ins, lock, tpend, gone>>
    /\ ret' = [Returned(st2, f1.e) EXCEPT !.t = t]
    /\ stack' = [stack EXCEPT ![t] = Popped(st2, f1.e)]
    /\ IF f1.owner = "register"
       THEN \* the view function returns its page, or the exception leaves it
            /\ requests' = [requests EXCEPT ![req[t]].outcome =
                                IF f1.e = NoExc THEN requests[req[t]].msg ELSE "error"]
            /\ req' = [req EXCEPT ![t] = NoRequest]
       ELSE UNCHANGED <<req, requests>>
    /\ UNCHANGED <<prepared, autoflush, registry, steps, committed, rowval, nextRow, goc, teams>>
    /\ UNCHANGED lifeVars

----------------------------------------------------------------------------
(* The row-locking helpers.                                                *)

\* the helper whose statement a frame runs: lock_one(scoped=True) is a scope
\* frame opened by lock_one
Helper(f) == IF f.kind \in ScopeKinds THEN f.owner ELSE f.kind

\* lock_models fetching with .one() as its siblings do
QueryModeOneEverywhere(helper, first) ==
    IF helper = "lock_by_query" /\ first THEN "first" ELSE "one"

\* .one() for _lock_one, lock_model and lock_by_query(first=False), .first()
\* for lock_by_query(first=True), .all() for lock_models
QueryMode(helper, first) ==
    CASE helper = "lock_models" -> "all"
      [] helper = "lock_by_query" /\ first -> "first"
      [] OTHER -> "one"

\* The rows the statement locks: all rows matching (M), or for .first()
\* (LIMIT 1) one of them, in the backend's scan order.
LockTargets(mode, M) ==
    IF mode = "first" /\ M # {} THEN {{r} : r \in M} ELSE {M}

\* lock_by_query(first=True) without its `if not query_result` check
QueryRaisesUncheckedFirst(mode, M) ==
    CASE mode = "one" /\ M = {} -> Exc("NoResultFound", "no_rows", "stmt")
      [] mode = "one" /\ Cardinality(M) > 1 -> Exc("MultipleResultsFound", "many_rows", "stmt")
      [] OTHER -> NoExc

\* what the query method raises once the rows M were fetched (NoExc: it
\* returns them); `if not query_result: raise NotFound()` for first=True
QueryRaises(mode, M) ==
    CASE mode = "one" /\ M = {} -> Exc("NoResultFound", "no_rows", "stmt")
      [] mode = "one" /\ Cardinality(M) > 1 -> Exc("MultipleResultsFound", "many_rows", "stmt")
      [] mode = "first" /\ M = {} -> Exc("NotFound", "no_rows", "stmt")
      [] OTHER -> NoExc

\* the helpers without their `except NoResultFound` clause
TranslateLockOperationalOnly(helper, e) ==
    IF e.type = "OperationalError" THEN Locked(e) ELSE e

\* the except clauses of the helpers
TranslateLock(helper, e) ==
    CASE e.type = "NoResultFound" /\ helper # "lock_models" -> NotFound(e)
      [] e.type = "OperationalError" -> Locked(e)
      [] OTHER -> e

\* whether the helper's yield is inside its try block
YieldInTry(helper) == helper \in {"lock_model", "lock_models", "lock_by_query"}

\* a plain SELECT, without .with_for_update(): it waits for nobody
MustWaitForNobody(s, T) == {}

\* .with_for_update(nowait=nowait): the rows of T the statement must wait for
MustWaitFor(s, T) == HeldByOther(s, T)

\* The statement of the frame on top of st raised e0: the helper's except
\* clauses translate it; a lock helper frame returns at once, a scope opened
\* by lock_one(scoped=True) receives it at its yield.
StmtRaised(st, e0) ==
    LET f == st[Len(st)]
        e1 == TranslateLock(Helper(f), e0)
        f1 == [f EXCEPT !.raw = e0, !.e = e1, !.via = "stmt",
                        !.pc = IF f.kind \in ScopeKinds THEN "except" ELSE "raised"]
    IN [ stack |-> IF f.kind \in ScopeKinds THEN SetTop(st, f1) ELSE Popped(SetTop(st, f1), e1),
         popped |-> f.kind \notin ScopeKinds,
         ret |-> Returned(SetTop(st, f1), e1) ]

\* The code of the with-block of the frame on top of st raised e0.
BodyRaised(st, e0) ==
    SetTop(st, [st[Len(st)] EXCEPT !.e = e0, !.via = "body", !.pc = "except"])

EnterLock(t, kind, nowait, pred, first) ==
    /\ stack[t] # <<>>
    /\ Top(t).pc = "body"
    /\ HasBudget
    /\ Len(stack[t]) < MaxDepth
    /\ stack' = [stack EXCEPT ![t] = Append(@,
            Frame(kind, "user", "stmt",
                  IF kind = "lock_one" THEN registry[t] ELSE Top(t).sid,
                  FALSE, FALSE, nowait, pred, first))]
    /\ steps' = steps + 1
    /\ ret' = NoRet
    /\ UNCHANGED <<prepared, autoflush, registry,
                   committed, rowval, nextRow, pend, ins, lock, goc>>
    /\ UNCHANGED appVars
    /\ UNCHANGED sideVars

\* lock_one(model_type, nowait, scoped, **identification)
lock_one(t, scoped, nowait, pred) ==
    IF scoped
    THEN /\ EnterScope(t, "lock_one", FALSE, FALSE, FALSE, nowait, pred)
         /\ UNCHANGED <<req, requests>>
    ELSE EnterLock(t, "lock_one", nowait, pred, FALSE)

lock_model(t, nowait, pred) == EnterLock(t, "lock_model", nowait, pred, FALSE)

lock_models(t, nowait, pred) == EnterLock(t, "lock_models", nowait, pred, FALSE)

lock_by_query(t, nowait, pred, first) == EnterLock(t, "lock_by_query", nowait, pred, first)

\* FOR UPDATE that waits whatever nowait says
BlocksAlways(nowait, H) == H # {}

\* FOR UPDATE waits for the holders H of the rows; FOR UPDATE NOWAIT does not
Blocks(nowait, H) == H # {} /\ ~nowait

(* The SELECT ... FOR UPDATE [NOWAIT] of a lock helper.  fault: the backend *)
(* fails the statement for a reason of its own (a lost connection).        *)
LockStmt(t, T, fault) ==
    LET f == Top(t)
        s == f.sid
        mode == QueryMode(Helper(f), f.first)
        M == Match(s, f.pred)
        H == MustWaitFor(s, T)
        f0 == IF f.pc = "stmt"
              THEN [f EXCEPT !.matched = M, !.held = HeldByOther(s, T),
                            !.locksBefore = LocksOf(s)]
              ELSE f
        st0 == SetTop(stack[t], f0)
        e0 == IF fault THEN Exc("OperationalError", "conn_lost", "stmt")
              ELSE IF H # {} THEN Exc("OperationalError", "lock_na", "stmt")
              ELSE QueryRaises(mode, M)
        r == StmtRaised(st0, e0)
    IN
    /\ stack[t] # <<>>
    /\ f.pc \in {"stmt", "wait"}
    /\ T \in LockTargets(mode, M)
    /\ fault => f.pc = "stmt"
    /\ (Blocks(f.nowait, H) /\ ~fault) => f.pc = "stmt"
    /\ pend' = IF fault THEN pend ELSE [pend EXCEPT ![s] = FlushedPend(s)]
    /\ ins' = IF fault THEN ins ELSE [ins EXCEPT ![s] = FlushedIns(s)]
    /\ IF Blocks(f.nowait, H) /\ ~fault
       THEN \* WAIT: the statement blocks until the holders end
            /\ stack' = [stack EXCEPT ![t] = SetTop(st0, [f0 EXCEPT !.pc = "wait"])]
            /\ ret' = NoRet
            /\ UNCHANGED lock
       ELSE IF e0 # NoExc
       THEN /\ stack' = [stack EXCEPT ![t] = r.stack]
            /\ ret' = IF r.popped THEN [r.ret EXCEPT !.t = t] ELSE NoRet
            /\ lock' = IF fault \/ H # {} THEN lock
                       ELSE [x \in RowIds |-> IF x \in T THEN lock[x] \cup {s} ELSE lock[x]]
       ELSE /\ stack' = [stack EXCEPT ![t] =
                    LET st1 == SetTop(st0, [f0 EXCEPT !.got = T, !.yielded = TRUE,
                                                      !.pc = "body"])
                    IN IF f.kind = "lock_one" THEN NoteUnscoped(st1, T) ELSE st1]
            /\ lock' = [x \in RowIds |-> IF x \in T THEN lock[x] \cup {s} ELSE lock[x]]
            /\ ret' = NoRet
    /\ UNCHANGED <<prepared, autoflush, registry, steps, committed, rowval, nextRow, goc>>
    /\ UNCHANGED appVars
    /\ UNCHANGED sideVars

(* An exception leaves the with-block of a lock helper: the except clauses *)
(* around the yield (lock_model, lock_models, lock_by_query) see it.       *)
LockExcept(t) ==
    LET f == Top(t)
        e1 == IF YieldInTry(f.kind) THEN TranslateLock(f.kind, f.e) ELSE f.e
        st1 == SetTop(stack[t], [f EXCEPT !.raw = f.e, !.e = e1, !.pc = "raised"])
    IN
    /\ stack[t] # <<>>
    /\ f.kind \in LockKinds
    /\ f.pc = "except"
    /\ ret' = [Returned(st1, e1) EXCEPT !.t = t]
    /\ stack' = [stack EXCEPT ![t] = Popped(st1, e1)]
    /\ UNCHANGED <<prepared, autoflush, registry, steps,
                   committed, rowval, nextRow, pend, ins, lock, goc>>
    /\ UNCHANGED appVars
    /\ UNCHANGED sideVars

----------------------------------------------------------------------------
(* The code of a with-block: what a caller does with the session it was    *)
(* given.                                                                  *)

InBody(t) == stack[t] # <<>> /\ Top(t).pc = "body"

\* session.add(instance): a new instance, pending until the next flush
BodyAdd(t, v) ==
    LET s == Top(t).sid
        r == nextRow
    IN
    /\ InBody(t)
    /\ HasBudget
    /\ r \in RowIds
    /\ pend' = [pend EXCEPT ![s] = @ \cup {r}]
    /\ rowval' = [rowval EXCEPT ![r] = v]
    /\ nextRow' = r + 1
    /\ stack' = [stack EXCEPT ![t] = NoteWrite(@, s, r)]
    /\ steps' = steps + 1
    /\ goc' = [goc EXCEPT ![t] = NoGoc]
    /\ ret' = NoRet
    /\ UNCHANGED <<prepared, autoflush, registry, committed, ins, lock>>
    /\ UNCHANGED appVars
    /\ UNCHANGED sideVars

\* instance = session.query(model_type).filter_by(**kwargs).first()
GocFound(s, v) == Match(s, v)

(* get_or_create(session, model_type, **kwargs): the first row the query   *)
(* returns, or a new instance added to the session.  goc[t] keeps the      *)
(* result, whether the call repeats the thread's previous one (same        *)
(* predicate, the earlier record still in the session or the table), and   *)
(* the number of records matching the predicate afterwards.                *)
get_or_create(t, v, hit) ==
    LET s == Top(t).sid
        found == GocFound(s, v)
        create == found = {}
        r == IF create THEN nextRow ELSE hit
        prev == goc[t]
        pend1 == IF create THEN FlushedPend(s) \cup {r} ELSE FlushedPend(s)
        ins1 == FlushedIns(s)
        all1 == committed \cup ins1 \cup pend1
    IN
    /\ InBody(t)
    /\ HasBudget
    /\ IF create THEN hit = 0 /\ r \in RowIds ELSE hit \in found
    /\ pend' = [pend EXCEPT ![s] = pend1]
    /\ ins' = [ins EXCEPT ![s] = ins1]
    /\ rowval' = IF create THEN [rowval EXCEPT ![r] = v] ELSE rowval
    /\ nextRow' = IF create THEN r + 1 ELSE nextRow
    /\ stack' = [stack EXCEPT ![t] = IF create THEN NoteWrite(@, s, r) ELSE @]
    /\ steps' = steps + 1
    /\ goc' = [goc EXCEPT ![t] =
            [ pred |-> v, row |-> r, created |-> create, sid |-> s,
              again |-> prev.pred = v
                        /\ prev.row \in committed \cup ins[s] \cup pend[s],
              prow |-> prev.row, pcreated |-> prev.created,
              shared |-> prev.sid = s /\ prev.row \in ins[s] \cup pend[s],
              n |-> Cardinality({x \in all1 : rowval'[x] = v}) ]]
    /\ ret' = NoRet
    /\ UNCHANGED <<prepared, autoflush, registry, committed, lock>>
    /\ UNCHANGED appVars
    /\ UNCHANGED sideVars

\* a timeout the statement on top of thread t is subject to: a timer that
\* is armed or firing, or a statement_timeout, of a scope that holds the
\* same session, or a timer left over on the session by a scope that exited
Deadlined(t) ==
    \/ Top(t).sid \in late
    \/ \E i \in 1..Len(stack[t]) :
           /\ stack[t][i].sid = Top(t).sid
           /\ stack[t][i].timer \in {"armed", "firing"} \/ stack[t][i].sto

\* a statement of the body that takes long enough for a timeout to matter
SlowBegin(t) ==
    /\ InBody(t)
    /\ HasBudget
    /\ Deadlined(t)
    /\ stack' = [stack EXCEPT ![t] = SetTop(@, [Top(t) EXCEPT !.pc = "slow"])]
    /\ steps' = steps + 1
    /\ ret' = NoRet
    /\ UNCHANGED <<prepared, autoflush, registry,
                   committed, rowval, nextRow, pend, ins, lock, goc>>
    /\ UNCHANGED appVars
    /\ UNCHANGED sideVars

SlowEnd(t) ==
    /\ stack[t] # <<>>
    /\ Top(t).pc = "slow"
    /\ stack' = [stack EXCEPT ![t] = SetTop(@, [Top(t) EXCEPT !.pc = "body"])]
    /\ ret' = NoRet
    /\ UNCHANGED <<prepared, autoflush, registry, steps,
                   committed, rowval, nextRow, pend, ins, lock, goc>>
    /\ UNCHANGED appVars
    /\ UNCHANGED sideVars

\* the body raises
BodyRaise(t, e) ==
    /\ InBody(t)
    /\ stack' = [stack EXCEPT ![t] = BodyRaised(@, e)]
    /\ goc' = [goc EXCEPT ![t] = NoGoc]
    /\ ret' = NoRet
    /\ UNCHANGED <<prepared, autoflush, registry, steps,
                   committed, rowval, nextRow, pend, ins, lock>>
    /\ UNCHANGED appVars
    /\ UNCHANGED sideVars

\* the body ends: a scope goes on to session.commit(), a lock helper returns
BodyReturn(t) ==
    LET f == Top(t)
        st1 == SetTop(stack[t], [f EXCEPT !.pc = "returned"])
    IN
    /\ InBody(t)
    /\ IF f.kind \in ScopeKinds
       THEN /\ stack' = [stack EXCEPT ![t] = SetTop(@, [f EXCEPT !.pc = "commit"])]
            /\ ret' = NoRet
       ELSE /\ stack' = [stack EXCEPT ![t] = Popped(st1, NoExc)]
            /\ ret' = [Returned(st1, NoExc) EXCEPT !.t = t]
    /\ UNCHANGED <<prepared, autoflush, registry, steps,
                   committed, rowval, nextRow, pend, ins, lock, goc>>
    /\ UNCHANGED appVars
    /\ UNCHANGED sideVars

----------------------------------------------------------------------------
(* list_models: `with session_scope():` around the query.                  *)

list_models(t) ==
    /\ EnterScope(t, "list_models", FALSE, FALSE, FALSE, FALSE, NoVal)
    /\ UNCHANGED <<req, requests>>

\* the rows S in the order the query returns them (a fixed ordering, by id)
RECURSIVE Ordered(_)
Ordered(S) ==
    IF S = {}
    THEN <<>>
    ELSE LET m == CHOOSE x \in S : \A y \in S : x <= y
         IN <<m>> \o Ordered(S \ {m})

\* `if page != 1: offset = limit * (page - 1)` left out
PageOffsetOfCaller(limit, offset, page) == offset

\* the offset list_models applies
PageOffset(limit, offset, page) ==
    IF page # 1 THEN limit * (page - 1) ELSE offset

\* qs.limit(limit).offset(offset) on the ordered rows
Limited(all, limit, offset) ==
    SubSeq(all, offset + 1, Min(offset + limit, Len(all)))

\* the body of list_models from `if not disable_limiting:` on, over the
\* ordered rows of the query
ListModels(all, limit, offset, page, disable_limiting) ==
    IF disable_limiting
    THEN [raised |-> FALSE, objects |-> all]
    ELSE IF page <= 0
         THEN [raised |-> TRUE, objects |-> <<>>]
         ELSE [raised |-> FALSE,
               objects |-> Limited(all, limit, PageOffset(limit, offset, page))]

\* the paging checks, then qs.all() and return
ListQuery(t, limit, offset, page, disable_limiting) ==
    LET f == Top(t)
        s == f.sid
        rows == UNION {Match(s, v) : v \in Vals}
        out == ListModels(Ordered(rows), limit, offset, page, disable_limiting)
        f0 == [f EXCEPT !.call = [limit |-> limit, offset |-> offset, page |-> page,
                                  disable_limiting |-> disable_limiting],
                        !.seen = IF out.raised THEN {} ELSE rows,
                        !.listed = out.objects]
    IN
    /\ stack[t] # <<>>
    /\ f.kind \in ScopeKinds
    /\ f.pc = "query"
    /\ IF out.raised
       THEN /\ stack' = [stack EXCEPT ![t] =
                    BodyRaised(SetTop(@, f0), Exc("ValueError", "page", "body"))]
            /\ UNCHANGED <<pend, ins>>
       ELSE /\ stack' = [stack EXCEPT ![t] = SetTop(@, [f0 EXCEPT !.pc = "commit"])]
            /\ pend' = [pend EXCEPT ![s] = FlushedPend(s)]
            /\ ins' = [ins EXCEPT ![s] = FlushedIns(s)]
    /\ ret' = NoRet
    /\ UNCHANGED <<prepared, autoflush, registry, steps,
                   committed, rowval, nextRow, lock, goc>>
    /\ UNCHANGED appVars
    /\ UNCHANGED sideVars

----------------------------------------------------------------------------
(* delete_model: `with session_scope() as session:` around .one() and      *)
(* session.delete(), with NoResultFound passed over.                       *)

delete_model(t, pred) ==
    /\ EnterScope(t, "delete_model", FALSE, FALSE, FALSE, FALSE, pred)
    /\ UNCHANGED <<req, requests>>

\* the rows of the table as session s has them: committed or written by s,
\* less those s has deleted
View(s) == (committed \cup ins[s] \cup pend[s]) \ gone[s]

\* what leaves the try statement of delete_model when .one() found rows M
DeleteRaises(M) ==
    IF Cardinality(M) > 1
    THEN Exc("MultipleResultsFound", "many_rows", "stmt")
    ELSE NoExc

\* beta = model_type.where(**identification).one(); session.delete(beta)
DeleteQuery(t) ==
    LET f == Top(t)
        s == f.sid
        M == Match(s, f.pred)
        e0 == DeleteRaises(M)
        f0 == [f EXCEPT !.matched = M, !.seen = View(s)]
    IN
    /\ stack[t] # <<>>
    /\ f.kind \in ScopeKinds
    /\ f.pc = "delete"
    /\ pend' = [pend EXCEPT ![s] = FlushedPend(s)]
    /\ ins' = [ins EXCEPT ![s] = FlushedIns(s)]
    /\ IF e0 = NoExc
       THEN /\ gone' = [gone EXCEPT ![s] = @ \cup M]
            /\ stack' = [stack EXCEPT ![t] = SetTop(@, [f0 EXCEPT !.pc = "commit"])]
       ELSE /\ gone' = gone
            /\ stack' = [stack EXCEPT ![t] = SetTop(@,
                    [f0 EXCEPT !.e = e0, !.raw = e0, !.via = "stmt", !.pc = "except"])]
    /\ ret' = NoRet
    /\ UNCHANGED <<prepared, autoflush, registry, steps,
                   committed, rowval, nextRow, lock, goc>>
    /\ UNCHANGED appVars
    /\ UNCHANGED <<lifeVars, late>>

----------------------------------------------------------------------------
(* register, the view of POST / in src/app.py: inside `with session_scope()`
   it looks the team name up, merges a new Team when the query found none,
   and returns its page; the scope commits on the way out.                 *)

\* a request arrives on an idle worker thread; before: the requests that
\* were answered by then
register(t, name) ==
    /\ stack[t] = <<>>
    /\ EnterScope(t, "register", FALSE, FALSE, FALSE, FALSE, NoVal)
    /\ req' = [req EXCEPT ![t] = Len(requests) + 1]
    /\ requests' = Append(requests,
            [ name |-> name, msg |-> "", outcome |-> "",
              before |-> {i \in 1..Len(requests) : requests[i].outcome # ""} ])

\* the view never looking the name up
TeamFoundNever(name) == FALSE

\* session.query(model.Team).filter(model.Team.name == team_name).first()
\* is not None
TeamFound(name) == teams[name] # NoTeam

RegisterCheck(t) ==
    LET f == Top(t)
        r == requests[req[t]]
    IN
    /\ stack[t] # <<>>
    /\ f.owner = "register"
    /\ f.pc = "check"
    /\ IF TeamFound(r.name)
       THEN /\ requests' = [requests EXCEPT ![req[t]].msg = "exists"]
            /\ stack' = [stack EXCEPT ![t] = SetTop(@, [f EXCEPT !.pc = "commit"])]
       ELSE /\ stack' = [stack EXCEPT ![t] = SetTop(@, [f EXCEPT !.pc = "merge"])]
            /\ UNCHANGED requests
    /\ ret' = NoRet
    /\ UNCHANGED <<prepared, autoflush, registry, steps,
                   committed, rowval, nextRow, pend, ins, lock, goc>>
    /\ UNCHANGED <<teams, tpend, req>>
    /\ UNCHANGED sideVars

\* session.merge(model.Team(name=..., ...)): loads the row of that primary
\* key if there is one by now and copies the new state onto it, else adds a
\* new row; then `return render_template(...)` leaves the with-block
RegisterMerge(t) ==
    LET f == Top(t)
        r == requests[req[t]]
    IN
    /\ stack[t] # <<>>
    /\ f.owner = "register"
    /\ f.pc = "merge"
    /\ tpend' = [tpend EXCEPT ![f.sid] =
            [ name |-> r.name, id |-> req[t],
              op |-> IF teams[r.name] # NoTeam THEN "update" ELSE "insert" ]]
    /\ requests' = [requests EXCEPT ![req[t]].msg = "success"]
    /\ stack' = [stack EXCEPT ![t] = SetTop(@, [f EXCEPT !.pc = "commit"])]
    /\ ret' = NoRet
    /\ UNCHANGED <<prepared, autoflush, registry, steps,
                   committed, rowval, nextRow, pend, ins, lock, goc>>
    /\ UNCHANGED <<teams, req>>
    /\ UNCHANGED sideVars

----------------------------------------------------------------------------
(* Timeouts.                                                               *)

\* The statement in flight on top of st is cancelled with backend error e0:
\* the lock statement of a helper, or a statement of the body.
Cancelled(st, e0) ==
    IF st[Len(st)].pc \in {"stmt", "wait"}
    THEN StmtRaised(st, [e0 EXCEPT !.src = "stmt"])
    ELSE [ stack |-> BodyRaised(st, e0), popped |-> FALSE, ret |-> NoRet ]

InFlight(t) == stack[t] # <<>> /\ Top(t).pc \in {"stmt", "wait", "slow"}

(* The threading.Timer of frame i fires: its thread finds the timer not    *)
(* cancelled and calls _cancel_request(session).                           *)
TimerFire(t, i) ==
    /\ i \in 1..Len(stack[t])
    /\ stack[t][i].timer = "armed"
    /\ stack' = [stack EXCEPT ![t][i].timer = "firing"]
    /\ ret' = NoRet
    /\ UNCHANGED <<prepared, autoflush, registry, steps,
                   committed, rowval, nextRow, pend, ins, lock, goc>>
    /\ UNCHANGED appVars
    /\ UNCHANGED sideVars

(* _cancel_request(session), in the timer's thread, for the scope of frame *)
(* i: session.connection().connection.cancel() ends the statement running  *)
(* on the connection, if there is one; or it fails with OperationalError   *)
(* (sent is FALSE) and `raise Timeout` ends the timer's thread.            *)
CancelRequest(t, i, sent) ==
    LET st1 == [stack[t] EXCEPT ![i].timer = IF sent THEN "fired" ELSE "failed"]
        hit == sent /\ InFlight(t) /\ Top(t).sid = stack[t][i].sid
        r == Cancelled(st1, Exc("OperationalError", TIMEOUT_EXCEPTION_ARGS, "body"))
    IN
    /\ i \in 1..Len(stack[t])
    /\ stack[t][i].timer = "firing"
    /\ stack' = [stack EXCEPT ![t] = IF hit THEN r.stack ELSE st1]
    /\ ret' = IF hit /\ r.popped THEN [r.ret EXCEPT !.t = t] ELSE NoRet
    /\ UNCHANGED <<prepared, autoflush, registry, steps,
                   committed, rowval, nextRow, pend, ins, lock, goc>>
    /\ UNCHANGED appVars
    /\ UNCHANGED sideVars

\* the thread that runs a statement on session s just now, if any
RunningOn(s) == {t \in Threads : InFlight(t) /\ Top(t).sid = s}

(* _cancel_request(session) of a timer whose scope has exited: the cancel  *)
(* goes to the connection of session s, whoever runs a statement on it.    *)
LateCancelRequest(s, sent) ==
    /\ s \in late
    /\ late' = late \ {s}
    /\ IF sent /\ RunningOn(s) # {}
       THEN LET t == CHOOSE u \in RunningOn(s) : TRUE
                r == Cancelled(stack[t], Exc("OperationalError", TIMEOUT_EXCEPTION_ARGS, "body"))
            IN /\ stack' = [stack EXCEPT ![t] = r.stack]
               /\ ret' = IF r.popped THEN [r.ret EXCEPT !.t = t] ELSE NoRet
       ELSE /\ stack' = stack
            /\ ret' = NoRet
    /\ UNCHANGED <<prepared, autoflush, registry, steps,
                   committed, rowval, nextRow, pend, ins, lock, goc>>
    /\ UNCHANGED appVars
    /\ UNCHANGED <<gone, lifeVars>>

(* The backend's statement_timeout (SET SESSION statement_timeout) ends the *)
(* statement in flight: "canceling statement due to statement timeout".    *)
StatementTimeout(t) ==
    LET r == Cancelled(stack[t], Exc("OperationalError", "stmt_timeout", "body")) IN
    /\ InFlight(t)
    /\ \E i \in 1..Len(stack[t]) : stack[t][i].sid = Top(t).sid /\ stack[t][i].sto
    /\ stack' = [stack EXCEPT ![t] = r.stack]
    /\ ret' = IF r.popped THEN [r.ret EXCEPT !.t = t] ELSE NoRet
    /\ UNCHANGED <<prepared, autoflush, registry, steps,
                   committed, rowval, nextRow, pend, ins, lock, goc>>
    /\ UNCHANGED appVars
    /\ UNCHANGED sideVars

----------------------------------------------------------------------------

Step(t) ==
    \/ \E o \in ScopeOptions : session_scope(t, o.nested, o.timeout, o.statement_timeout)
    \/ \E ok \in BOOLEAN, armed \in BOOLEAN : ScopeSetup(t, ok, armed)
    \/ \E ok \in BOOLEAN : ScopeCommit(t, ok)
    \/ \E oc \in {"ok", "rollback_raises", "diag_raises"} : ScopeExcept(t, oc)
    \/ \E cancelled \in BOOLEAN : ScopeFinally(t, cancelled)
    \/ list_models(t)
    \/ \E page \in {0, 1} : ListQuery(t, DefaultLimit, 0, page, FALSE)
    \/ \E p \in Vals : delete_model(t, p)
    \/ DeleteQuery(t)
    \/ \E scoped \in BOOLEAN, nowait \in BOOLEAN, p \in Vals : lock_one(t, scoped, nowait, p)
    \/ \E nowait \in BOOLEAN, p \in Vals : lock_model(t, nowait, p)
    \/ \E nowait \in BOOLEAN, p \in Vals : lock_models(t, nowait, p)
    \/ \E nowait \in BOOLEAN, p \in Vals, first \in BOOLEAN : lock_by_query(t, nowait, p, first)
    \/ \E T \in SUBSET RowIds, fault \in BOOLEAN : LockStmt(t, T, fault)
    \/ LockExcept(t)
    \/ BodyAdd(t, "c")
    \/ \E v \in {"b", "c"}, hit \in {0} \cup RowIds : get_or_create(t, v, hit)
    \/ SlowBegin(t)
    \/ SlowEnd(t)
    \/ \E e \in BodyExceptions : BodyRaise(t, e)
    \/ BodyReturn(t)
    \/ \E i \in 1..MaxDepth : TimerFire(t, i)
    \/ \E i \in 1..MaxDepth, sent \in BOOLEAN : CancelRequest(t, i, sent)
    \/ \E s \in SessionIds, sent \in BOOLEAN : LateCancelRequest(s, sent)
    \/ StatementTimeout(t)

\* The calls of a thread that works with row locks inside a plain scope.
Locker(t) ==
    \/ session_scope(t, FALSE, FALSE, FALSE)
    \/ ScopeSetup(t, TRUE, FALSE)
    \/ ScopeCommit(t, TRUE)
    \/ ScopeExcept(t, "ok")
    \/ ScopeFinally(t, TRUE)
    \/ \E scoped \in BOOLEAN, nowait \in BOOLEAN, p \in Vals : lock_one(t, scoped, nowait, p)
    \/ \E nowait \in BOOLEAN, p \in Vals : lock_model(t, nowait, p)
    \/ \E nowait \in BOOLEAN, p \in Vals : lock_models(t, nowait, p)
    \/ \E nowait \in BOOLEAN, p \in Vals, first \in BOOLEAN : lock_by_query(t, nowait, p, first)
    \/ \E T \in SUBSET RowIds : LockStmt(t, T, FALSE)
    \/ LockExcept(t)
    \/ BodyRaise(t, Exc("ValueError", "app", "body"))
    \/ BodyReturn(t)

\* The second thread contends for rows: it only calls lock_one(scoped=True)
\* on the rows of the initial table and leaves its with-block normally.
Contend(t) ==
    \/ \E nowait \in BOOLEAN, p \in {"a", "b"} : lock_one(t, TRUE, nowait, p)
    \/ ScopeSetup(t, TRUE, FALSE)
    \/ \E T \in SUBSET RowIds : LockStmt(t, T, FALSE)
    \/ BodyReturn(t)
    \/ ScopeCommit(t, TRUE)
    \/ ScopeExcept(t, "ok")
    \/ ScopeFinally(t, TRUE)

\* The requests a worker thread of the web application serves.
Serve(t) ==
    \/ \E name \in TeamNames : register(t, name)
    \/ ScopeSetup(t, TRUE, FALSE)
    \/ RegisterCheck(t)
    \/ RegisterMerge(t)
    \/ ScopeCommit(t, TRUE)
    \/ ScopeExcept(t, "ok")
    \/ ScopeFinally(t, TRUE)

\* The calls of a thread that lists a table between deletions, with every
\* choice of paging arguments.
Lister(t) ==
    \/ list_models(t)
    \/ \E limit \in Limits, offset \in Offsets, page \in Pages, dl \in BOOLEAN :
           ListQuery(t, limit, offset, page, dl)
    \/ \E p \in Vals : delete_model(t, p)
    \/ DeleteQuery(t)
    \/ ScopeSetup(t, TRUE, FALSE)
    \/ ScopeCommit(t, TRUE)
    \/ ScopeExcept(t, "ok")
    \/ ScopeFinally(t, TRUE)

\* one thread alone, every operation
Next == Step("t1")

Spec == Init /\ [][Next]_vars

\* two threads and the row locks
NextLocks == Locker("t1") \/ Contend("t2")

SpecLocks == Init /\ [][NextLocks]_vars

\* two threads that only call lock_one(scoped=True)
NextWait == \E t \in Threads : Contend(t)

SpecWait == Init /\ [][NextWait]_vars

\* fair scheduling: a thread that can take a step is not left out for ever,
\* and the backend resumes a statement whose wait is over
FairWait == \A t \in Threads : WF_vars(Contend(t))

SpecWaitFair == SpecWait /\ FairWait

\* the worker threads of the web application
\* The calls of a thread that initialises the module, opens scopes and shuts
\* the module down, each function of the lifecycle advancing one statement
\* at a time.
Life(t) ==
    \/ prepare_module(t)
    \/ ScopePrepare(t)
    \/ PrepareCheck(t)
    \/ PrepareEngine(t)
    \/ PrepareReadOnlyEngine(t)
    \/ PrepareSession(t)
    \/ PrepareBind(t)
    \/ PrepareFlag(t)
    \/ (lpc[t].at = "entered" /\ session_scope(t, FALSE, FALSE, FALSE))
    \/ ScopeNoSession(t)
    \/ shutdown_module(t)
    \/ ShutdownCheck(t)
    \/ ShutdownDispose(t)
    \/ ShutdownDisposeReadOnly(t)
    \/ ShutdownUnset(t)
    \/ ShutdownFlag(t)
    \/ ScopeSetup(t, TRUE, FALSE)
    \/ BodyReturn(t)
    \/ ScopeCommit(t, TRUE)
    \/ ScopeFinally(t, TRUE)

NextLife == \E t \in Threads : Life(t)

SpecLife == Init /\ [][NextLife]_vars

NextList == Lister("t1")

SpecList == Init /\ [][NextList]_vars

NextApp == \E t \in Threads : Serve(t)

SpecApp == Init /\ [][NextApp]_vars

----------------------------------------------------------------------------
(* Properties of session_scope.                                            *)

ScopeReturned == ret.f.kind \in ScopeKinds

\* C1: a session_scope invocation that returns, normally or with an
\* Exception raised by its setup, its body or its commit, has had exactly one
\* of commit and rollback executed on its session and has had the session
\* closed exactly once (timer.cancel() not raising).
C1_OneOutcomeOneClose ==
    (ScopeReturned /\ ret.f.ein.type # "KeyboardInterrupt" /\ ret.out.src # "cancel") =>
        /\ ret.f.nCommit + ret.f.nRollback = 1
        /\ ret.f.nClose = 1

\* C2: when the body of a session_scope ends with an exception, no row
\* written through the scope's session since entry is committed, and the
\* session was rolled back (by rollback() or by close()) and closed.
C2_FailedBodyCommitsNothing ==
    (ScopeReturned /\ ret.f.via = "body" /\ ret.f.ein # NoExc) =>
        /\ ret.f.wrote \cap committed = {}
        /\ ret.f.nClose >= 1

\* the scope's handler ran to its raise statement: rollback() and the
\* deadlock diagnostics did not raise themselves
HandlerCompleted == ret.out.src \notin {"rollback", "diag", "cancel"}

\* C4: when a statement running inside a session_scope exceeded the scope's
\* timeout (its timer fired, or the backend's statement_timeout ended the
\* statement), the exception the caller receives from the scope is Timeout.
C4_TimeoutSurfaces ==
    ( /\ ScopeReturned
      /\ HandlerCompleted
      /\ \/ ret.f.timer = "fired" /\ ret.f.ein.why = TIMEOUT_EXCEPTION_ARGS
         \/ ret.f.sto /\ ret.f.ein.why = "stmt_timeout" )
    => ret.out.type = "Timeout"

\* the exception the handler received was the backend's cancellation error
WasUserCancel(e) == e.type = "OperationalError" /\ e.why = TIMEOUT_EXCEPTION_ARGS

----------------------------------------------------------------------------
(* Properties of the lock helpers.                                         *)

AllFrames == {ret.f} \cup UNION {{stack[t][i] : i \in 1..Len(stack[t])} : t \in Threads}

LockOneFrames == {f \in AllFrames : Helper(f) = "lock_one"}

\* C3: no row lock has two holders, and a lock_one with NO_WAIT that is
\* attempted while another transaction holds the matching row does not
\* obtain the record and raises Locked.
C3_NoWaitExclusion ==
    /\ \A r \in RowIds : Cardinality(lock[r]) <= 1
    /\ \A f \in LockOneFrames :
          (f.nowait /\ f.held # {}) =>
              (~f.yielded /\ f.got = {} /\ f.e.type = "Locked")

\* one thread is in the with-block of lock_one holding the row, the other
\* thread's NO_WAIT lock_one on the same row has raised Locked
C3_Witness ==
    \E t \in Threads, u \in Threads :
        /\ t # u
        /\ stack[t] # <<>>
        /\ stack[u] # <<>>
        /\ Helper(Top(t)) = "lock_one" /\ Helper(Top(u)) = "lock_one"
        /\ Top(t).nowait /\ Top(u).nowait
        /\ Top(t).pc = "body" /\ Top(t).got # {}
        /\ Top(t).got \subseteq LocksOf(Top(t).sid)
        /\ Top(u).held = Top(t).got
        /\ Top(u).e.type = "Locked"

\* thread t's helper on top of its stack yields in this step
YieldsNow(t) ==
    /\ stack[t] # <<>>
    /\ Top(t).pc \in {"stmt", "wait"}
    /\ Len(stack'[t]) = Len(stack[t])
    /\ stack'[t][Len(stack'[t])].pc = "body"

\* thread t's helper on top of its stack runs its statement in this step
RunsStmt(t) ==
    /\ stack[t] # <<>>
    /\ Top(t).pc = "stmt"
    /\ stack'[t] # stack[t]

\* a lock_one(scoped=True) call has returned to its caller
LockOneReturned == ScopeReturned /\ ret.f.owner = "lock_one"

\* the frame's lock statement was not refused under NO_WAIT
Uncontended(f) == f.held = {} \/ ~f.nowait

HelperReturned ==
    \/ ret.f.kind \in LockKinds
    \/ LockOneReturned

\* C7: a lock helper raises Locked only when a row matching its predicate
\* was held by another transaction, and NotFound only when its own statement
\* found no row; every other error reaches the caller unmodified.
C7_TypedErrorsOnlyForOwnStatement ==
    HelperReturned =>
        /\ ret.out.type = "Locked" =>
              /\ ret.out.src = "stmt"
              /\ ret.out.why = "lock_na"
              /\ ret.f.held # {}
        /\ ret.out.type = "NotFound" =>
              /\ ret.out.src = "stmt"
              /\ ret.out.why = "no_rows"
              /\ ret.f.matched = {}

\* a lock_by_query call has returned whose statement the backend completed
\* (no lost connection, no cancellation, no contention)
ByQueryReturned ==
    /\ ret.f.kind = "lock_by_query"
    /\ ~(ret.f.via = "stmt" /\ ret.f.raw.type = "OperationalError")

\* what lock_by_query does when at most one row matches, and with first=True
ByQueryUpToOne ==
    /\ (ret.f.first /\ ret.f.matched # {}) =>
           /\ ret.f.yielded
           /\ Cardinality(ret.f.got) = 1
           /\ ret.f.got \subseteq ret.f.matched
    /\ ret.f.matched = {} =>
           ret.out.type = "NotFound" /\ ~ret.f.yielded
    /\ (~ret.f.first /\ Cardinality(ret.f.matched) = 1) =>
           ret.f.yielded /\ ret.f.got = ret.f.matched

C9_LockModels ==
    [][\A t \in Threads :
        /\ (RunsStmt(t) /\ Top(t).kind = "lock_models"
                /\ Match(Top(t).sid, Top(t).pred) = {}) =>
              /\ YieldsNow(t)
              /\ stack'[t][Len(stack'[t])].got = {}
              /\ lock' = lock
        /\ (YieldsNow(t) /\ Top(t).kind = "lock_models") =>
              /\ stack'[t][Len(stack'[t])].got = Match(Top(t).sid, Top(t).pred)
              /\ \A r \in stack'[t][Len(stack'[t])].got : lock'[r] = {Top(t).sid}
        /\ \A u \in Threads \ {t} :
              ( /\ stack[u] # <<>>
                /\ Top(u).kind = "lock_models" /\ Top(u).pc = "body"
                /\ Top(u).matched = {} /\ LocksOf(Top(u).sid) = {}
                /\ RunsStmt(t) /\ Top(t).nowait
                /\ Match(Top(t).sid, Top(t).pred) # {} ) =>
              stack'[t][Len(stack'[t])].e.type # "Locked"]_vars

\* one thread is in the with-block of a lock_models that matched nothing,
\* and another thread's NO_WAIT lock_one, attempted meanwhile, holds its row
C9_Witness ==
    \E t \in Threads, u \in Threads :
        /\ t # u
        /\ stack[t] # <<>>
        /\ stack[u] # <<>>
        /\ Top(t).kind = "lock_models" /\ Top(t).pc = "body"
        /\ Top(t).yielded /\ Top(t).matched = {} /\ Top(t).got = {}
        /\ Helper(Top(u)) = "lock_one" /\ Top(u).nowait
        /\ Top(u).pc = "body" /\ Top(u).got # {}
        /\ Top(u).got \subseteq LocksOf(Top(u).sid)

\* C10: when get_or_create is called twice in a row with the same predicate
\* and the first call created the record, the second call returns the same
\* record with created = False, and exactly one row matches the predicate.
C10_SecondCallFindsFirst ==
    \A t \in Threads :
        (goc[t].again /\ goc[t].pcreated) =>
            /\ goc[t].row = goc[t].prow
            /\ ~goc[t].created
            /\ goc[t].n = 1

----------------------------------------------------------------------------
(* Properties of the registration view.                                    *)

RequestsFor(n) == {i \in 1..Len(requests) : requests[i].name = n}

\* every request for name n has been answered, and each began after the
\* earlier ones were answered
InSequence(n) ==
    /\ \A i \in RequestsFor(n) : requests[i].outcome # ""
    /\ \A i \in RequestsFor(n), j \in RequestsFor(n) :
          i < j => i \in requests[j].before

\* C11: after a sequence of registration requests for the same team name,
\* one row with that name exists and holds the contents of the first
\* request, the first request has reported success and every later one has
\* reported already-exists.
C11_RegisterOnce ==
    \A n \in TeamNames :
        (RequestsFor(n) # {} /\ InSequence(n)) =>
            \A i \in RequestsFor(n) :
                IF \A j \in RequestsFor(n) : i <= j
                THEN requests[i].outcome = "success" /\ teams[n] = i
                ELSE requests[i].outcome = "exists"

\* three requests for the same name, one after another, have been answered
C11_Witness ==
    /\ Len(requests) = 3
    /\ \A i \in 1..3 : requests[i].name = "Alpha"
    /\ InSequence("Alpha")
    /\ requests[2].outcome = "exists"
    /\ requests[3].outcome = "exists"
    /\ teams["Alpha"] = 1

----------------------------------------------------------------------------
(* Properties of delete_model.                                             *)

\* a delete_model call has returned that the backend served without a
\* failure of its own
DeleteReturned ==
    /\ ScopeReturned
    /\ ret.f.owner = "delete_model"
    /\ ret.f.via \in {"", "stmt"}

\* C12: when exactly one row matches, delete_model deletes it and commits
\* the deletion; when no row matches it returns without raising and leaves
\* the rows of the table as they were; either way no row matches the
\* predicate afterwards, so that a second call is the no-op.
C12_DeleteIdempotent ==
    DeleteReturned =>
        /\ Cardinality(ret.f.matched) = 1 =>
               /\ ret.out = NoExc
               /\ committed = ret.f.seen \ ret.f.matched
        /\ ret.f.matched = {} =>
               /\ ret.out = NoExc
               /\ committed = ret.f.seen
        /\ Cardinality(ret.f.matched) <= 1 =>
               {r \in committed : rowval[r] = ret.f.pred} = {}

----------------------------------------------------------------------------
(* Properties of list_models.                                              *)

\* a list_models call has returned
ListReturned ==
    /\ ScopeReturned
    /\ ret.f.owner = "list_models"
    /\ ret.f.call # NoCall

\* the records of sequence all from position offset + 1 on, at most limit
IsWindow(w, all, limit, offset) ==
    /\ Len(w) = (IF Len(all) - offset < 0 THEN 0 ELSE Min(limit, Len(all) - offset))
    /\ \A i \in 1..Len(w) : w[i] = all[offset + i]

\* C13: with disable_limiting false, page < 1 raises the validation error
\* and returns no records, page = 1 returns the window at the caller's
\* offset, and page P >= 2 the window at offset limit * (P - 1) whatever the
\* caller's offset, which is what page 1 with that offset returns; with
\* disable_limiting true every record is returned, whatever the page.
C13_Paging ==
    ListReturned =>
        LET c == ret.f.call
            all == Ordered(ret.f.seen)
        IN
        IF c.disable_limiting
        THEN ret.out = NoExc /\ ret.f.listed = Ordered(ret.f.seen)
        ELSE /\ c.page < 1 => ret.out.type = "ValueError" /\ ret.f.listed = <<>>
             /\ c.page = 1 =>
                    /\ ret.out = NoExc
                    /\ IsWindow(ret.f.listed, all, c.limit, c.offset)
             /\ c.page >= 2 =>
                    /\ ret.out = NoExc
                    /\ IsWindow(ret.f.listed, all, c.limit, c.limit * (c.page - 1))
                    /\ ret.f.listed =
                           ListModels(all, c.limit, c.limit * (c.page - 1), 1, FALSE).objects

\* page 2 of a call whose own offset points elsewhere returned a record
C13_Witness ==
    /\ ListReturned
    /\ ~ret.f.call.disable_limiting
    /\ ret.f.call.page = 2
    /\ ret.f.call.offset # ret.f.call.limit
    /\ ret.f.listed # <<>>
    /\ ret.f.listed # Limited(Ordered(ret.f.seen), ret.f.call.limit, ret.f.call.offset)

----------------------------------------------------------------------------
(* Properties of the module lifecycle.                                     *)

\* C14: between an initialisation and the matching shutdown the read-write
\* engine, the read-only engine and the session factory are each created
\* at most once, whatever threads call prepare_module and however their
\* calls interleave.
C14_CreatedAtMostOnce ==
    /\ made.Engine <= 1
    /\ made.ReadOnlyEngine <= 1
    /\ made.Session <= 1

\* thread t is handed a session by session_scope in this step
HandedSession(t) ==
    /\ Len(stack'[t]) > Len(stack[t])
    /\ stack'[t][Len(stack'[t])].kind = "scope"

\* shutdown_module returns to thread t in this step, having found the
\* module initialised, while no other thread is inside prepare_module or
\* shutdown_module
ShutdownReturns(t) ==
    /\ lpc[t].at = "unflag"
    /\ lpc'[t] = Idle
    /\ \A u \in Threads \ {t} : lpc[u].at \in {"idle", "entered"}

Uninitialised ==
    /\ ~prepared
    /\ Engine = NoEngine
    /\ ReadOnlyEngine = NoEngine
    /\ Session = NoEngine
    /\ bound = NoEngine

\* C15: when shutdown_module returns, the globals are unset, _PREPARED is
\* false and no session factory is left bound to the models; and a session
\* handed out after a shutdown is never bound to an engine that a shutdown
\* disposed.
C15_ShutdownResetsAll ==
    [][\A t \in Threads :
           /\ ShutdownReturns(t) => Uninitialised'
           /\ HandedSession(t) => bind'[stack'[t][Len(stack'[t])].sid] \notin retired]_vars

----------------------------------------------------------------------------
(* Properties of the cancellation timer.                                   *)

\* the timer left over on session s runs its cancel request in this step
LateDelivery(s) == s \in late /\ s \notin late'

\* C16: once a session_scope that armed a cancellation timer has exited,
\* its timer never delivers a cancel request to the session's connection.
C16_NoCancelAfterExit ==
    [][\A s \in SessionIds : ~LateDelivery(s)]_vars

\* C17: when timer.cancel() itself raised during the exit of a scope, the
\* scope has still performed exactly one terminal action, commit or
\* rollback, and has closed the session exactly once.
C17_CancelRaisesStillCloses ==
    (ScopeReturned /\ ret.out.src = "cancel") =>
        /\ ret.f.nCommit + ret.f.nRollback = 1
        /\ ret.f.nClose = 1

\* C18: when the timer fired and its cancel request found nothing to
\* cancel, the scope that otherwise met no exception returns normally; when
\* the cancel request failed with an OperationalError of the backend, the
\* caller of the scope receives Timeout (scopes that met no exception of
\* another origin).
C18_CancelFailureSurfaces ==
    (ScopeReturned /\ ret.f.via = "" /\ ret.out.src # "cancel") =>
        /\ ret.f.timer = "fired" => ret.out = NoExc
        /\ ret.f.timer = "failed" => ret.out.type = "Timeout"

\* C19: while the session a scope yielded is in use by the scope's thread,
\* no other thread is inside an operation on that session: the timer's
\* thread is not inside _cancel_request(session) of an open scope.
C19_OneThreadPerSession ==
    \A t \in Threads : \A i \in 1..Len(stack[t]) :
        ( /\ stack[t][i].kind \in ScopeKinds
          /\ stack[t][i].pc \notin {"setup", "except", "finally"} )
        => stack[t][i].timer # "firing"

----------------------------------------------------------------------------
(* Properties of lock_one(scoped=False).                                   *)

\* C20: the row locks taken by lock_one(scoped=False) inside an open
\* session_scope stay held by the scope's session until the scope's
\* terminal action, its commit or rollback, which releases them together.
C20_UnscopedLocksHeldToTheEnd ==
    \A t \in Threads : \A i \in 1..Len(stack[t]) :
        ( /\ stack[t][i].kind \in ScopeKinds
          /\ stack[t][i].pc \notin {"finally", "closed"} )
        => stack[t][i].ulocks \subseteq LocksOf(stack[t][i].sid)

----------------------------------------------------------------------------
(* Properties of waiting for a row lock.                                   *)

\* the lock statement of thread t is blocked on a row lock
Waiting(t) == stack[t] # <<>> /\ Top(t).pc = "wait"

\* no other transaction holds a row the statement of thread t asks for
HolderEnded(t) == HeldByOther(Top(t).sid, Match(Top(t).sid, Top(t).pred)) = {}

\* the helper of thread t has yielded the record, with its row lock
GotRecord(t) ==
    /\ stack[t] # <<>>
    /\ Top(t).yielded
    /\ Top(t).got # {}
    /\ Top(t).got \subseteq LocksOf(Top(t).sid)

\* thread t waits for a row whose holder waits for a row of t
Deadlocked(t) ==
    /\ Waiting(t)
    /\ \E u \in Threads \ {t} :
           /\ Waiting(u)
           /\ Top(u).sid \in UNION {lock[r] : r \in Match(Top(t).sid, Top(t).pred)}
           /\ Top(t).sid \in UNION {lock[r] : r \in Match(Top(u).sid, Top(u).pred)}

\* C21: a NO_WAIT lock call never blocks; a WAIT lock call on one held row
\* blocks, and once the holder's transaction has ended it eventually
\* returns the locked record (the threads not being deadlocked).
C21_WaitEventuallyLocks ==
    /\ [](\A f \in AllFrames : f.nowait => f.pc # "wait")
    /\ \A t \in Threads :
           (Waiting(t) /\ HolderEnded(t) /\ Cardinality(Top(t).matched) = 1)
               ~> (GotRecord(t) \/ Deadlocked(t))

\* a WAIT lock_one that found its row held has the record now
C21_Witness ==
    \E t \in Threads :
        /\ GotRecord(t)
        /\ ~Top(t).nowait
        /\ Top(t).held # {}
        /\ Cardinality(Top(t).matched) = 1

----------------------------------------------------------------------------
(* Properties of lock_one(scoped=True).                                    *)

\* C22: the row lock taken by `with lock_one(..., scoped=True)` is held by
\* the calling thread's transaction from the yield of the record until the
\* with-block exits, whatever the body calls on the same thread.
C22_ScopedLockHeldInBlock ==
    \A t \in Threads : \A i \in 1..Len(stack[t]) :
        ( /\ stack[t][i].kind \in ScopeKinds
          /\ stack[t][i].owner = "lock_one"
          /\ stack[t][i].yielded
          /\ stack[t][i].pc \in {"body", "slow"} )
        => stack[t][i].got \subseteq LocksOf(stack[t][i].sid)

----------------------------------------------------------------------------
(* Properties of nested scopes.                                            *)

\* the scope frames of thread t inside which a nested scope was entered
Enclosing(t) ==
    {i \in 1..Len(stack[t]) : stack[t][i].kind \in ScopeKinds /\ stack[t][i].nestedIn}

\* C23: a nested scope entered inside an open scope has a session of its
\* own and leaves the enclosing scope untouched: while the enclosing scope
\* is in its body, its session has not been closed and still has the rows
\* the scope had written; when the enclosing scope has returned normally,
\* its session was closed once and those rows are committed.
C23_NestedLeavesEnclosing ==
    /\ \A t \in Threads : \A i \in Enclosing(t) :
          /\ \A j \in (i + 1)..Len(stack[t]) :
                 stack[t][j].kind \in ScopeKinds => stack[t][j].sid # stack[t][i].sid
          /\ stack[t][i].pc = "body" =>
                 /\ stack[t][i].nClose = 0
                 /\ stack[t][i].nRollback = 0
                 /\ stack[t][i].before \subseteq
                        pend[stack[t][i].sid] \cup ins[stack[t][i].sid] \cup committed
    /\ (ScopeReturned /\ ret.f.nestedIn /\ ret.out = NoExc) =>
          /\ ret.f.nClose = 1
          /\ ret.f.before \subseteq committed

====
